---- MODULE Spec2Model ----
(***************************************************************************)
(* Model of src/raftstore/store/region_snapshot.rs: RegionSnapshot (a      *)
(* range-limited read view over one engine snapshot) and RegionIterator    *)
(* (a bounds-clamped cursor that validates every seek target).             *)
(*                                                                         *)
(* Keys are byte strings, modelled as sequences of small naturals and      *)
(* compared byte-lexicographically.  A physical key is a logical key with  *)
(* the data prefix in front.                                               *)
(***************************************************************************)
EXTENDS Naturals, Sequences, FiniteSets

VARIABLES
    ps_region,       \* PeerStorage's live region descriptor
    snapshot,        \* the RegionSnapshot: [snap |-> engine data, region |-> captured region]
    clone,           \* a clone of the RegionSnapshot, when one was made
    it,              \* the RegionIterator in use, when one was built
    ret,             \* the last event: the call made and what it returned
    fail_fast,       \* panic_when_unexpected_key_or_data()
    critical_error,  \* CRITICAL_ERROR{"key not in region"}
    panic_mark,      \* set_panic_mark() was called
    panicked,        \* the process was terminated by panic!
    log,             \* side effects of the error handler, in program order
    scan,            \* the scan call in progress or just finished: its loop and its visitor
    built_region,    \* the region descriptor as it was when the snapshot was built
    rejected,        \* how many seek targets outside [s,e] were passed so far
    engine,          \* the live engine's data, written to after the snapshot was taken
    other,           \* a second reader: its RegionIterator and what its last call returned
    cf_snap          \* the snapshot's data in the column family CF_WRITE

\* the state that only the second reader, the writers and the column-family
\* calls touch
rest == <<engine, other, cf_snap>>

vars == <<ps_region, snapshot, clone, it, ret, fail_fast, critical_error, rejected,
          panic_mark, panicked, log, scan, built_region, rejected, rest>>

-----------------------------------------------------------------------------
(* Bounds of the model *)

\* largest byte of a logical key
MaxByte == 3
\* rejected seek targets after which no further one is tried
MaxErrors == 2

\* keys of the live engine that differ from the snapshot
MaxWrites == 1

Bytes == 1..MaxByte

\* logical keys: the empty key and the one-byte keys
LogicalKeys == {<<>>} \cup {<<b>> : b \in Bytes}

\* logical keys that carry data in the engine
DataKeys == LogicalKeys \ {<<>>}

-----------------------------------------------------------------------------
(* Byte strings *)

\* Ord for [u8]: byte-lexicographic, a proper prefix is smaller
RECURSIVE KeyLess(_, _)
KeyLess(a, b) ==
    IF b = <<>> THEN FALSE
    ELSE IF a = <<>> THEN TRUE
    ELSE IF Head(a) # Head(b) THEN Head(a) < Head(b)
    ELSE KeyLess(Tail(a), Tail(b))

KeyLeq(a, b) == a = b \/ KeyLess(a, b)

\* cmp::max on Vec<u8>
KeyMax(a, b) == IF KeyLess(a, b) THEN b ELSE a

\* cmp::min on Vec<u8>
KeyMin(a, b) == IF KeyLess(b, a) THEN b ELSE a

\* Option<T>
None == [some |-> FALSE, val |-> <<>>]
Some(k) == [some |-> TRUE, val |-> k]

-----------------------------------------------------------------------------
(* keys: the key codec *)

\* keys::DATA_PREFIX, b'z'
DATA_PREFIX == 122

\* keys::DATA_MAX_KEY, the byte after the data prefix
DATA_MAX_KEY == <<DATA_PREFIX + 1>>

\* keys::data_key: logical to physical
data_key(key) == <<DATA_PREFIX>> \o key

\* keys::origin_key: physical to logical, strips the one-byte prefix
origin_key(key) == SubSeq(key, 2, Len(key))

\* keys::enc_start_key
enc_start_key(region) == data_key(region.start_key)

\* keys::enc_end_key: an empty end key is the end of the data namespace
enc_end_key(region) ==
    IF region.end_key = <<>> THEN DATA_MAX_KEY ELSE data_key(region.end_key)

-----------------------------------------------------------------------------
(* metapb::Region and util::check_key_in_region *)

Region(s, e) == [start_key |-> s, end_key |-> e]

\* the region descriptors: [start_key, end_key), an empty end_key is unbounded
Regions ==
    {Region(s, e) : s \in LogicalKeys, e \in LogicalKeys} \
    {r \in {Region(s, e) : s \in LogicalKeys, e \in LogicalKeys} :
        r.end_key # <<>> /\ ~KeyLess(r.start_key, r.end_key)}

\* util::check_key_in_region: Ok iff start_key <= key < end_key
check_key_in_region(key, region) ==
    /\ KeyLeq(region.start_key, key)
    /\ (region.end_key = <<>> \/ KeyLess(key, region.end_key))

\* util::check_key_in_region_inclusive: Ok iff start_key <= key <= end_key
check_key_in_region_inclusive(key, region) ==
    /\ KeyLeq(region.start_key, key)
    /\ (region.end_key = <<>> \/ KeyLeq(key, region.end_key))

-----------------------------------------------------------------------------
(* The engine: a snapshot's data and its native iterator *)

\* the value the tests store under a key: a3 -> v3
ValueFor(key) == key[Len(key)]

\* the datasets: physical key -> value, for every set of data keys
DataSets ==
    {[p \in {data_key(k) : k \in S} |-> ValueFor(p)] : S \in SUBSET DataKeys}

\* keys::LOCAL_PREFIX: the namespace of the store's and the regions' metadata
LOCAL_PREFIX == 1

\* physical keys outside the data namespace: metadata below it, and the key
\* that ends it
MetaKeys == {<<LOCAL_PREFIX>> \o k : k \in DataKeys} \cup {DATA_MAX_KEY}

\* the value of an entry that is not region data
MetaValue == 0

\* the datasets of an engine shared with metadata: under every key outside
\* the data namespace an entry, next to the entries of a set of data keys
SharedDataSets ==
    {[p \in DOMAIN d \cup MetaKeys |-> IF p \in MetaKeys THEN MetaValue ELSE d[p]] :
        d \in DataSets}

\* the smallest and the largest key of a non-empty set of keys
MinKey(S) == CHOOSE k \in S : \A o \in S : KeyLeq(k, o)
MaxKey(S) == CHOOSE k \in S : \A o \in S : KeyLeq(o, k)

\* a cursor position: on a key, or not valid
NoPos == [valid |-> FALSE, key |-> <<>>]
PosAt(S) == [valid |-> TRUE, key |-> S]

\* Snapshot::db_iterator: an iterator over data with the bounds of the options
db_iterator(data, iter_opt) ==
    [data  |-> data,
     lower |-> iter_opt.lower_bound,
     upper |-> iter_opt.upper_bound,
     pos   |-> NoPos]

\* the entries an engine iterator can stand on: lower inclusive, upper exclusive
InBounds(iter) ==
    {k \in DOMAIN iter.data :
        /\ (iter.lower.some => KeyLeq(iter.lower.val, k))
        /\ (iter.upper.some => KeyLess(k, iter.upper.val))}

Land(S, pick_min) ==
    IF S = {} THEN NoPos
    ELSE IF pick_min THEN PosAt(MinKey(S)) ELSE PosAt(MaxKey(S))

\* DBIterator::seek_to_first / seek_to_last / seek / seek_for_prev / next / prev
db_seek_to_first(iter) == [iter EXCEPT !.pos = Land(InBounds(iter), TRUE)]
db_seek_to_last(iter) == [iter EXCEPT !.pos = Land(InBounds(iter), FALSE)]
db_seek(iter, key) ==
    [iter EXCEPT !.pos = Land({k \in InBounds(iter) : KeyLeq(key, k)}, TRUE)]
db_seek_for_prev(iter, key) ==
    [iter EXCEPT !.pos = Land({k \in InBounds(iter) : KeyLeq(k, key)}, FALSE)]
db_next(iter) ==
    [iter EXCEPT !.pos = Land({k \in InBounds(iter) : KeyLess(iter.pos.key, k)}, TRUE)]
db_prev(iter) ==
    [iter EXCEPT !.pos = Land({k \in InBounds(iter) : KeyLess(k, iter.pos.key)}, FALSE)]

-----------------------------------------------------------------------------
(* IterOption and the bound clipper *)

IterOption(lower, upper) == [lower_bound |-> lower, upper_bound |-> upper]

\* the bounds a caller can ask for: absent, empty or a key
UserBounds == {None} \cup {Some(k) : k \in LogicalKeys}

\* a clipper that takes the smaller of the user's bound and the region's start
set_lower_bound_min(iter_opt, region) ==
    IF iter_opt.lower_bound.some /\ iter_opt.lower_bound.val # <<>>
    THEN [iter_opt EXCEPT !.lower_bound =
              Some(KeyMin(data_key(iter_opt.lower_bound.val), enc_start_key(region)))]
    ELSE [iter_opt EXCEPT !.lower_bound = Some(enc_start_key(region))]

\* a clipper that hands the region's start to the engine without the prefix
set_lower_bound_unencoded(iter_opt, region) ==
    LET region_start_key == region.start_key
        lower_bound ==
            IF iter_opt.lower_bound.some /\ iter_opt.lower_bound.val # <<>>
            THEN KeyMax(data_key(iter_opt.lower_bound.val), region_start_key)
            ELSE region_start_key
    IN  [iter_opt EXCEPT !.lower_bound = Some(lower_bound)]

set_lower_bound(iter_opt, region) ==
    LET region_start_key == enc_start_key(region)
        lower_bound ==
            IF iter_opt.lower_bound.some /\ iter_opt.lower_bound.val # <<>>
            THEN KeyMax(data_key(iter_opt.lower_bound.val), region_start_key)
            ELSE region_start_key
    IN  [iter_opt EXCEPT !.lower_bound = Some(lower_bound)]

\* a clipper that lets a given user bound replace the region's end
set_upper_bound_unclipped(iter_opt, region) ==
    IF iter_opt.upper_bound.some /\ iter_opt.upper_bound.val # <<>>
    THEN [iter_opt EXCEPT !.upper_bound = Some(data_key(iter_opt.upper_bound.val))]
    ELSE [iter_opt EXCEPT !.upper_bound = Some(enc_end_key(region))]

\* a clipper that encodes the region's end as a key, an empty end included
set_upper_bound_end_as_key(iter_opt, region) ==
    LET region_end_key == data_key(region.end_key)
        upper_bound ==
            IF iter_opt.upper_bound.some /\ iter_opt.upper_bound.val # <<>>
            THEN KeyMin(data_key(iter_opt.upper_bound.val), region_end_key)
            ELSE region_end_key
    IN  [iter_opt EXCEPT !.upper_bound = Some(upper_bound)]

set_upper_bound(iter_opt, region) ==
    LET region_end_key == enc_end_key(region)
        upper_bound ==
            IF iter_opt.upper_bound.some /\ iter_opt.upper_bound.val # <<>>
            THEN KeyMin(data_key(iter_opt.upper_bound.val), region_end_key)
            ELSE region_end_key
    IN  [iter_opt EXCEPT !.upper_bound = Some(upper_bound)]

-----------------------------------------------------------------------------
(* Results and the corruption policy *)

NoRegion == Region(<<>>, <<>>)

\* Ok(v)
Ok(v) == [kind |-> "Ok", val |-> v, key |-> <<>>, region |-> NoRegion]

\* Error::KeyNotInRegion(key, region)
KeyNotInRegion(key, region) ==
    [kind |-> "KeyNotInRegion", val |-> FALSE, key |-> key, region |-> region]

\* the call never returned: the process was terminated inside it
Panicked == [kind |-> "Panic", val |-> FALSE, key |-> <<>>, region |-> NoRegion]

\* the elements of a sequence
Range(s) == {s[i] : i \in DOMAIN s}

\* a handler that panics without setting the mark first
handle_check_key_in_region_error_no_mark(e, panic_when_unexpected) ==
    IF panic_when_unexpected
    THEN [effects |-> <<"inc", "panic">>, result |-> Panicked]
    ELSE [effects |-> <<"inc">>, result |-> e]

\* a handler that does not consult the flag
handle_check_key_in_region_error_always_panic(e, panic_when_unexpected) ==
    [effects |-> <<"inc", "mark", "panic">>, result |-> Panicked]

\* fn handle_check_key_in_region_error(e): the side effects in program order
\* and what the caller gets
handle_check_key_in_region_error(e, panic_when_unexpected) ==
    IF panic_when_unexpected
    THEN [effects |-> <<"inc", "mark", "panic">>, result |-> Panicked]
    ELSE [effects |-> <<"inc">>, result |-> e]

-----------------------------------------------------------------------------
(* RegionIterator *)

EmptyData == [p \in {} |-> 0]

NoIter ==
    [some   |-> FALSE,
     iter   |-> db_iterator(EmptyData, IterOption(None, None)),
     region |-> NoRegion,
     opt    |-> IterOption(None, None)]

\* RegionIterator::new; opt keeps the caller's options for reference
RegionIterator_new(snap, region, iter_opt) ==
    LET clipped == set_upper_bound(set_lower_bound(iter_opt, region), region)
    IN  [some   |-> TRUE,
         iter   |-> db_iterator(snap, clipped),
         region |-> region,
         opt    |-> iter_opt]

\* a check of the seek target against the exclusive range
should_seekable_exclusive(rit, key, panic_when_unexpected) ==
    IF ~check_key_in_region(key, rit.region)
    THEN handle_check_key_in_region_error(KeyNotInRegion(key, rit.region),
                                          panic_when_unexpected)
    ELSE [effects |-> <<>>, result |-> Ok(TRUE)]

\* RegionIterator::should_seekable
should_seekable(rit, key, panic_when_unexpected) ==
    IF ~check_key_in_region_inclusive(key, rit.region)
    THEN handle_check_key_in_region_error(KeyNotInRegion(key, rit.region),
                                          panic_when_unexpected)
    ELSE [effects |-> <<>>, result |-> Ok(TRUE)]

\* an iterator call that moved the engine iterator and returned its validity
Moved(rit, iter) ==
    [it |-> [rit EXCEPT !.iter = iter], effects |-> <<>>, reads |-> 1,
     result |-> Ok(iter.pos.valid)]

\* a seek_to_first that validates the empty key as its target
seek_to_first_checked(rit) ==
    IF should_seekable(rit, <<>>, fail_fast).result.kind # "Ok"
    THEN [it |-> rit, effects |-> should_seekable(rit, <<>>, fail_fast).effects,
          reads |-> 0, result |-> should_seekable(rit, <<>>, fail_fast).result]
    ELSE Moved(rit, db_seek_to_first(rit.iter))

\* RegionIterator::seek_to_first / seek_to_last
seek_to_first(rit) == Moved(rit, db_seek_to_first(rit.iter))
seek_to_last(rit) == Moved(rit, db_seek_to_last(rit.iter))

\* a seek that hands the logical key to the engine
seek_logical(rit, key, panic_when_unexpected) ==
    LET checked == should_seekable(rit, key, panic_when_unexpected)
    IN  IF checked.result.kind # "Ok"
        THEN [it |-> rit, effects |-> checked.effects, reads |-> 0,
              result |-> checked.result]
        ELSE Moved(rit, db_seek(rit.iter, key))

\* RegionIterator::seek
seek(rit, key, panic_when_unexpected) ==
    LET checked == should_seekable(rit, key, panic_when_unexpected)
    IN  IF checked.result.kind # "Ok"
        THEN [it |-> rit, effects |-> checked.effects, reads |-> 0,
              result |-> checked.result]
        ELSE Moved(rit, db_seek(rit.iter, data_key(key)))

\* a seek_for_prev that moves the engine iterator before it checks the target
seek_for_prev_moves_first(rit, key, panic_when_unexpected) ==
    LET checked == should_seekable(rit, key, panic_when_unexpected)
        moved == Moved(rit, db_seek_for_prev(rit.iter, data_key(key)))
    IN  IF checked.result.kind # "Ok"
        THEN [it |-> moved.it, effects |-> checked.effects, reads |-> 1,
              result |-> checked.result]
        ELSE moved

\* RegionIterator::seek_for_prev
seek_for_prev(rit, key, panic_when_unexpected) ==
    LET checked == should_seekable(rit, key, panic_when_unexpected)
    IN  IF checked.result.kind # "Ok"
        THEN [it |-> rit, effects |-> checked.effects, reads |-> 0,
              result |-> checked.result]
        ELSE Moved(rit, db_seek_for_prev(rit.iter, data_key(key)))

\* a prev that moves the engine iterator forwards
prev_forwards(rit) == Moved(rit, db_next(rit.iter))

\* RegionIterator::prev / next
prev(rit) == Moved(rit, db_prev(rit.iter))
next(rit) == Moved(rit, db_next(rit.iter))

\* a key that returns the engine's key as it is, the data prefix included
key_physical(rit) == rit.iter.pos.key

\* RegionIterator::valid / key / value
valid(rit) == rit.iter.pos.valid
key(rit) == origin_key(rit.iter.pos.key)
value(rit) == rit.iter.data[rit.iter.pos.key]

-----------------------------------------------------------------------------
(* RegionSnapshot *)

\* RegionSnapshot::from_snapshot: the region is moved into a fresh Arc
from_snapshot(snap, region) == [snap |-> snap, region |-> region]

NoClone == [some |-> FALSE, snap |-> EmptyData, region |-> NoRegion]

\* a clone that takes the live region instead of sharing the Arc
RegionSnapshot_clone_live(s) == [some |-> TRUE, snap |-> s.snap, region |-> ps_region]

\* impl Clone for RegionSnapshot: shares the engine snapshot and the Arc
RegionSnapshot_clone(s) == [some |-> TRUE, snap |-> s.snap, region |-> s.region]

\* RegionSnapshot::get_region / get_start_key / get_end_key
get_region(s) == s.region
get_start_key(s) == s.region.start_key
get_end_key(s) == s.region.end_key

\* an iterator built on the live engine instead of the snapshot
RegionSnapshot_iter_live(s, iter_opt) == RegionIterator_new(engine, s.region, iter_opt)

\* RegionSnapshot::iter
RegionSnapshot_iter(s, iter_opt) == RegionIterator_new(s.snap, s.region, iter_opt)

\* Option<DBVector>::None
NoValue == [some |-> FALSE, val |-> 0]

\* Snapshot::get_value on the engine snapshot
snap_get_value(data, physical_key) ==
    IF physical_key \in DOMAIN data THEN Some(data[physical_key]) ELSE NoValue

\* a lookup that reads the engine first and checks the range inclusively
get_value_inclusive(s, k) ==
    IF ~check_key_in_region_inclusive(k, s.region)
    THEN [effects |-> <<>>, reads |-> 1, result |-> KeyNotInRegion(k, s.region)]
    ELSE [effects |-> <<>>, reads |-> 1,
          result |-> Ok(snap_get_value(s.snap, data_key(k)))]

\* Peekable::get_value for RegionSnapshot
get_value(s, k) ==
    IF ~check_key_in_region(k, s.region)
    THEN [effects |-> <<>>, reads |-> 0, result |-> KeyNotInRegion(k, s.region)]
    ELSE [effects |-> <<>>, reads |-> 1,
          result |-> Ok(snap_get_value(s.snap, data_key(k)))]

\* the error a visitor reports
VisitorError == [kind |-> "VisitorError", val |-> FALSE, key |-> <<>>, region |-> NoRegion]

\* a scan that leaves end_key out of the iterator options
scan_begin_no_upper(s, start_key, end_key, panic_when_unexpected) ==
    seek(RegionSnapshot_iter(s, IterOption(Some(start_key), None)),
         start_key, panic_when_unexpected)

\* a scan that positions on the first entry of its clipped range
scan_begin_first(s, start_key, end_key, panic_when_unexpected) ==
    seek_to_first(RegionSnapshot_iter(s, IterOption(Some(start_key), Some(end_key))))

\* RegionSnapshot::scan up to the loop: builds the iterator and seeks start_key
scan_begin(s, start_key, end_key, panic_when_unexpected) ==
    seek(RegionSnapshot_iter(s, IterOption(Some(start_key), Some(end_key))),
         start_key, panic_when_unexpected)

\* a loop that advances whatever f answered, unless it was an error
scan_turn_ignores_stop(rit, verdict) ==
    IF verdict = "error"
    THEN [it |-> rit, nexts |-> 0, it_valid |-> FALSE, result |-> VisitorError]
    ELSE [it |-> next(rit).it, nexts |-> 1, it_valid |-> next(rit).result.val,
          result |-> Ok(TRUE)]

\* a loop that calls f again without advancing the iterator
scan_turn_no_advance(rit, verdict) ==
    IF verdict = "continue"
    THEN [it |-> rit, nexts |-> 0, it_valid |-> valid(rit), result |-> Ok(TRUE)]
    ELSE IF verdict = "stop"
    THEN [it |-> rit, nexts |-> 0, it_valid |-> FALSE, result |-> Ok(TRUE)]
    ELSE [it |-> rit, nexts |-> 0, it_valid |-> FALSE, result |-> VisitorError]

\* RegionSnapshot::scan_impl, one turn of the loop after f returned verdict:
\* it_valid = f(it.key(), it.value())? && it.next()?
scan_turn(rit, verdict) ==
    IF verdict = "continue"
    THEN [it |-> next(rit).it, nexts |-> 1, it_valid |-> next(rit).result.val,
          result |-> Ok(TRUE)]
    ELSE IF verdict = "stop"
    THEN [it |-> rit, nexts |-> 0, it_valid |-> FALSE, result |-> Ok(TRUE)]
    ELSE [it |-> rit, nexts |-> 0, it_valid |-> FALSE, result |-> VisitorError]

\* the traversal loops of the tests, entered once seek_to_first / seek_to_last
\* returned true: loop { res.push((key, value)); if !it.next() { break; } }
RECURSIVE collect_next(_), collect_prev(_)
collect_next(rit) ==
    <<<<key(rit), value(rit)>>>> \o
    (IF next(rit).result.val THEN collect_next(next(rit).it) ELSE <<>>)

collect_prev(rit) ==
    <<<<key(rit), value(rit)>>>> \o
    (IF prev(rit).result.val THEN collect_prev(prev(rit).it) ELSE <<>>)

\* seek_to_first, then the loop over next
walk_forward(rit) ==
    LET first == seek_to_first(rit)
    IN  [ok      |-> first.result.val,
         entries |-> IF first.result.val THEN collect_next(first.it) ELSE <<>>]

\* seek_to_last, then the loop over prev
walk_backward(rit) ==
    LET last == seek_to_last(rit)
    IN  [ok      |-> last.result.val,
         entries |-> IF last.result.val THEN collect_prev(last.it) ELSE <<>>]

\* the iterator a traversal leaves behind: not valid
exhausted(rit) == [rit EXCEPT !.iter.pos = NoPos]

\* the engine's column families (storage::ALL_CFS, in part) and the names a
\* caller may pass
CF_DEFAULT == "default"
CF_WRITE == "write"
EngineCfs == {CF_DEFAULT, CF_WRITE}
CfNames == EngineCfs \cup {"absent"}

\* the snapshot's data in one of the engine's column families
cf_data(snap, cf) == IF cf = CF_DEFAULT THEN snap ELSE cf_snap

\* Snapshot::db_iterator_cf: Err when the engine has no such column family
db_iterator_cf(snap, cf, iter_opt) ==
    IF cf \in EngineCfs
    THEN [ok |-> TRUE, iter |-> db_iterator(cf_data(snap, cf), iter_opt)]
    ELSE [ok |-> FALSE, iter |-> db_iterator(EmptyData, iter_opt)]

\* Snapshot::get_value_cf: Err when the engine has no such column family
snap_get_value_cf(snap, cf, physical_key) ==
    IF cf \in EngineCfs
    THEN [ok |-> TRUE, val |-> snap_get_value(cf_data(snap, cf), physical_key)]
    ELSE [ok |-> FALSE, val |-> NoValue]

\* the error of a column family the engine does not have
CfNotFound == [kind |-> "CfNotFound", val |-> FALSE, key |-> <<>>, region |-> NoRegion]

\* RegionIterator::new_cf: snap.db_iterator_cf(cf, iter_opt).unwrap(), the
\* unwrap panics on Err
RegionIterator_new_cf(snap, region, iter_opt, cf) ==
    LET clipped == set_upper_bound(set_lower_bound(iter_opt, region), region)
        iter == db_iterator_cf(snap, cf, clipped)
    IN  IF iter.ok
        THEN [panic |-> FALSE,
              it    |-> [some   |-> TRUE,
                         iter   |-> iter.iter,
                         region |-> region,
                         opt    |-> iter_opt]]
        ELSE [panic |-> TRUE, it |-> NoIter]

\* RegionSnapshot::iter_cf: Ok(RegionIterator::new_cf(..))
iter_cf(s, cf, iter_opt) ==
    LET made == RegionIterator_new_cf(s.snap, s.region, iter_opt, cf)
    IN  [it      |-> made.it,
         effects |-> IF made.panic THEN <<"panic">> ELSE <<>>,
         reads   |-> 0,
         result  |-> IF made.panic THEN Panicked ELSE Ok(TRUE)]

\* RegionSnapshot::scan_cf up to the loop: self.iter_cf(cf, iter_opt)?, then
\* the seek of scan_impl
scan_cf_begin(s, cf, start_key, end_key, panic_when_unexpected) ==
    LET made == iter_cf(s, cf, IterOption(Some(start_key), Some(end_key)))
    IN  IF made.result.kind = "Ok"
        THEN seek(made.it, start_key, panic_when_unexpected)
        ELSE made

\* Peekable::get_value_cf for RegionSnapshot
get_value_cf(s, cf, k) ==
    IF ~check_key_in_region(k, s.region)
    THEN [effects |-> <<>>, reads |-> 0, result |-> KeyNotInRegion(k, s.region)]
    ELSE LET got == snap_get_value_cf(s.snap, cf, data_key(k))
         IN  [effects |-> <<>>, reads |-> 1,
              result |-> IF got.ok THEN Ok(got.val) ELSE CfNotFound]

\* the RegionSnapshot values a caller holds
Snapshots ==
    {snapshot} \cup
    (IF clone.some THEN {from_snapshot(clone.snap, clone.region)} ELSE {})

-----------------------------------------------------------------------------
(* The state machine *)

Call(op, arg, out) ==
    [op |-> op, arg |-> arg, result |-> out.result, reads |-> out.reads]

\* a call that touches neither the engine nor the policy
Plain(v) == [effects |-> <<>>, reads |-> 0, result |-> Ok(v)]

\* a scan call that has not returned yet
Running == [kind |-> "Running", val |-> FALSE, key |-> <<>>, region |-> NoRegion]

\* no scan call
NoScan == [pc |-> "idle", visited |-> <<>>, verdicts |-> <<>>, nexts |-> 0]

\* a reader that has built no iterator yet
NoReader == [rit |-> NoIter, ret |-> Call("none", <<>>, Plain(TRUE))]

\* RegionSnapshot::new(ps) on an engine that holds one of datasets: a snapshot
\* of the engine and a copy of ps.region()
InitOver(datasets) ==
    /\ ps_region \in Regions
    /\ built_region = ps_region
    /\ \E data \in datasets : snapshot = from_snapshot(data, ps_region)
    /\ clone = NoClone
    /\ it = NoIter
    /\ ret = Call("new", <<>>, Plain(TRUE))
    /\ fail_fast \in BOOLEAN
    /\ critical_error = 0
    /\ panic_mark = FALSE
    /\ panicked = FALSE
    /\ log = <<>>
    /\ scan = NoScan
    /\ rejected = 0
    /\ engine = snapshot.snap
    /\ other = NoReader

\* an engine that holds region data only, as the tests' engine does
InitSnapshot == InitOver(DataSets)

\* the tests' engine: data in CF_DEFAULT only
Init == InitSnapshot /\ cf_snap = EmptyData

\* the caller is between two calls
Ready == ~panicked /\ scan.pc # "visit"

\* the side effects of a call on the process
Effects(effects) ==
    /\ effects # <<>> => critical_error < MaxErrors
    /\ critical_error' =
           critical_error + Cardinality({i \in DOMAIN effects : effects[i] = "inc"})
    /\ panic_mark' = (panic_mark \/ "mark" \in Range(effects))
    /\ panicked' = ("panic" \in Range(effects))
    /\ log' = log \o effects

\* the seek targets outside [s,e] of the region the snapshot was built with
OutOfRegion(k) ==
    ~(/\ KeyLeq(built_region.start_key, k)
      /\ (built_region.end_key = <<>> \/ KeyLeq(k, built_region.end_key)))

\* counts a call of seek / seek_for_prev whose target is outside [s,e]
Rejects(seeks, k) ==
    rejected' = IF seeks /\ OutOfRegion(k) THEN rejected + 1 ELSE rejected

\* a call on the iterator: out is what the method computed
IterCall(op, arg, computed) ==
    /\ \E out \in {computed} :
        /\ it' = out.it
        /\ ret' = Call(op, arg, out)
        /\ Effects(out.effects)
    /\ Rejects(op \in {"seek", "seek_for_prev"}, arg)
    /\ scan' = NoScan
    /\ UNCHANGED <<ps_region, snapshot, clone, fail_fast, built_region, rest>>

\* snap.iter(iter_opt), the bounds drawn from bounds; the model follows one
\* iterator at a time
NewIterWith(bounds) ==
    /\ Ready /\ ~it.some
    /\ \E s \in Snapshots, lower \in bounds, upper \in bounds :
        it' = RegionSnapshot_iter(s, IterOption(lower, upper))
    /\ ret' = Call("iter", <<>>, Plain(TRUE))
    /\ scan' = NoScan
    /\ UNCHANGED <<ps_region, snapshot, clone, fail_fast, critical_error, rejected,
                   panic_mark, panicked, log, built_region, rest>>

NewIter == NewIterWith(UserBounds)

\* snap.iter(IterOption::default())
NewIterDefault == NewIterWith({None})

\* the iterator goes out of scope
DropIter ==
    /\ Ready /\ it.some
    /\ it' = NoIter
    /\ ret' = Call("drop", <<>>, Plain(TRUE))
    /\ scan' = NoScan
    /\ UNCHANGED <<ps_region, snapshot, clone, fail_fast, critical_error, rejected,
                   panic_mark, panicked, log, built_region, rest>>

SeekToFirst ==
    /\ Ready /\ it.some
    /\ IterCall("seek_to_first", <<>>, seek_to_first(it))

SeekToLast ==
    /\ Ready /\ it.some
    /\ IterCall("seek_to_last", <<>>, seek_to_last(it))

Seek ==
    /\ Ready /\ it.some
    /\ \E k \in LogicalKeys : IterCall("seek", k, seek(it, k, fail_fast))

SeekForPrev ==
    /\ Ready /\ it.some
    /\ \E k \in LogicalKeys :
        IterCall("seek_for_prev", k, seek_for_prev(it, k, fail_fast))

\* next / prev are called on a positioned iterator only
IterNext ==
    /\ Ready /\ it.some /\ valid(it)
    /\ IterCall("next", <<>>, next(it))

IterPrev ==
    /\ Ready /\ it.some /\ valid(it)
    /\ IterCall("prev", <<>>, prev(it))

\* snap.get_value(key)
GetValue ==
    /\ Ready
    /\ \E s \in Snapshots, k \in LogicalKeys :
        ret' = Call("get_value", k, get_value(s, k))
    /\ scan' = NoScan
    /\ UNCHANGED <<ps_region, snapshot, clone, it, fail_fast, critical_error, rejected,
                   panic_mark, panicked, log, built_region, rest>>

\* snap.get_region()
GetRegion ==
    /\ Ready
    /\ \E s \in Snapshots :
        ret' = Call("get_region", <<>>,
                    Plain(Region(get_start_key(s), get_end_key(s))))
    /\ scan' = NoScan
    /\ UNCHANGED <<ps_region, snapshot, clone, it, fail_fast, critical_error, rejected,
                   panic_mark, panicked, log, built_region, rest>>

\* snap.clone()
Clone ==
    /\ Ready /\ ~clone.some
    /\ clone' = RegionSnapshot_clone(snapshot)
    /\ ret' = Call("clone", <<>>, Plain(TRUE))
    /\ scan' = NoScan
    /\ UNCHANGED <<ps_region, snapshot, it, fail_fast, critical_error, rejected,
                   panic_mark, panicked, log, built_region, rest>>

\* elsewhere the live region is split, merged or given other boundaries
ChangeRegion ==
    /\ ~panicked
    /\ ps_region' \in Regions \ {ps_region}
    /\ ret' = Call("change_region", <<>>, Plain(TRUE))
    /\ UNCHANGED <<snapshot, clone, it, fail_fast, critical_error, rejected,
                   panic_mark, panicked, log, scan, built_region, rest>>

\* snap.scan(start_key, end_key, _, f) up to the first call of f, on the
\* iterator the scan builds for itself
ScanBegin ==
    /\ Ready /\ ~it.some
    /\ \E s \in Snapshots, start_key \in LogicalKeys, end_key \in LogicalKeys :
      \E out \in {scan_begin(s, start_key, end_key, fail_fast)} :
        LET it_valid == out.result.kind = "Ok" /\ out.result.val
        IN  /\ Effects(out.effects)
            /\ Rejects(TRUE, start_key)
            /\ it' = IF it_valid THEN out.it ELSE NoIter
            /\ scan' = [NoScan EXCEPT !.pc = IF it_valid THEN "visit" ELSE "done"]
            /\ ret' = [op |-> "scan", arg |-> <<start_key, end_key>>,
                       reads |-> out.reads,
                       result |-> IF it_valid THEN Running
                                  ELSE IF out.result.kind = "Ok" THEN Ok(TRUE)
                                  ELSE out.result]
    /\ UNCHANGED <<ps_region, snapshot, clone, fail_fast, built_region, rest>>

\* one turn of the scan loop: f is called on the entry under the cursor and
\* answers continue, stop or an error
ScanVisit ==
    /\ ~panicked /\ scan.pc = "visit"
    /\ \E verdict \in {"continue", "stop", "error"} :
      \E out \in {scan_turn(it, verdict)} :
            /\ scan' = [pc       |-> IF out.it_valid THEN "visit" ELSE "done",
                        visited  |-> Append(scan.visited, <<key(it), value(it)>>),
                        verdicts |-> Append(scan.verdicts, verdict),
                        nexts    |-> scan.nexts + out.nexts]
            /\ it' = IF out.it_valid THEN out.it ELSE NoIter
            /\ ret' = [ret EXCEPT !.result = IF out.it_valid THEN Running ELSE out.result,
                                  !.reads = ret.reads + out.nexts]
    /\ UNCHANGED <<ps_region, snapshot, clone, fail_fast, critical_error, rejected,
                   panic_mark, panicked, log, built_region, rest>>

\* a traversal of a newly built iterator's range in both directions
Walk ==
    /\ Ready /\ it.some /\ ret.op = "iter"
    /\ \E fwd \in {walk_forward(it)}, bwd \in {walk_backward(it)} :
        ret' = Call("walk", <<>>,
                    Plain([first |-> fwd.ok, forward |-> fwd.entries,
                           last |-> bwd.ok, backward |-> bwd.entries]))
    /\ it' = exhausted(it)
    /\ scan' = NoScan
    /\ UNCHANGED <<ps_region, snapshot, clone, fail_fast, critical_error, rejected,
                   panic_mark, panicked, log, built_region, rest>>

Next ==
    \/ NewIter
    \/ Walk
    \/ DropIter
    \/ SeekToFirst
    \/ SeekToLast
    \/ Seek
    \/ SeekForPrev
    \/ IterNext
    \/ IterPrev
    \/ GetValue
    \/ ScanBegin
    \/ ScanVisit

Spec == Init /\ [][Next]_vars

\* the same calls on a snapshot of an engine shared with metadata
InitNamespace == InitOver(SharedDataSets) /\ cf_snap = EmptyData

SpecNamespace == InitNamespace /\ [][Next]_vars

\* scans alone; f returns from every call, so a scan in its loop takes its
\* next turn
NextScan ==
    \/ ScanBegin
    \/ ScanVisit

SpecScan == Init /\ [][NextScan]_vars /\ WF_vars(ScanVisit)

\* reads interleaved with changes of the live region, on the snapshot, its
\* clone and iterators with default options
NextRegion ==
    \/ ChangeRegion
    \/ Clone
    \/ GetRegion
    \/ GetValue
    \/ NewIterDefault
    \/ DropIter
    \/ SeekToFirst
    \/ SeekToLast
    \/ Seek
    \/ SeekForPrev
    \/ IterNext
    \/ IterPrev

\* the recoverable posture, so that every rejected target returns to the caller
InitRegion == Init /\ ~fail_fast

SpecRegion == InitRegion /\ [][NextRegion]_vars

-----------------------------------------------------------------------------
(* Reads of one column family *)

\* snap.iter_cf(cf, IterOption::default())
NewIterCf ==
    /\ Ready /\ ~it.some
    /\ \E s \in Snapshots, cf \in CfNames :
      \E out \in {iter_cf(s, cf, IterOption(None, None))} :
        /\ it' = out.it
        /\ ret' = Call("iter_cf", cf, out)
        /\ Effects(out.effects)
    /\ scan' = NoScan
    /\ UNCHANGED <<ps_region, snapshot, clone, fail_fast, built_region, rejected, rest>>

\* snap.scan_cf(cf, start_key, end_key, _, f) up to the first call of f
ScanCfBegin ==
    /\ Ready /\ ~it.some
    /\ \E s \in Snapshots, cf \in CfNames, start_key \in LogicalKeys,
          end_key \in LogicalKeys :
      \E out \in {scan_cf_begin(s, cf, start_key, end_key, fail_fast)} :
        LET it_valid == out.result.kind = "Ok" /\ out.result.val
        IN  /\ Effects(out.effects)
            /\ Rejects(cf \in EngineCfs, start_key)
            /\ it' = IF it_valid THEN out.it ELSE NoIter
            /\ scan' = [NoScan EXCEPT !.pc = IF it_valid THEN "visit" ELSE "done"]
            /\ ret' = [op |-> "scan_cf", arg |-> <<cf, start_key, end_key>>,
                       reads |-> out.reads,
                       result |-> IF it_valid THEN Running
                                  ELSE IF out.result.kind = "Ok" THEN Ok(TRUE)
                                  ELSE out.result]
    /\ UNCHANGED <<ps_region, snapshot, clone, fail_fast, built_region, rest>>

\* snap.get_value_cf(cf, key)
GetValueCf ==
    /\ Ready
    /\ \E s \in Snapshots, cf \in CfNames, k \in LogicalKeys :
        ret' = Call("get_value_cf", <<cf, k>>, get_value_cf(s, cf, k))
    /\ scan' = NoScan
    /\ UNCHANGED <<ps_region, snapshot, clone, it, fail_fast, critical_error, rejected,
                   panic_mark, panicked, log, built_region, rest>>

\* reads of one column family, the snapshot holding data in CF_WRITE too
NextCf ==
    \/ NewIterCf
    \/ ScanCfBegin
    \/ ScanVisit
    \/ GetValueCf
    \/ DropIter
    \/ SeekToFirst
    \/ IterNext

\* CF_WRITE holds nothing or an entry under every data key
InitCf ==
    /\ InitSnapshot
    /\ cf_snap \in {d \in DataSets : DOMAIN d \in {{}, {data_key(k) : k \in DataKeys}}}

SpecCf == InitCf /\ [][NextCf]_vars

-----------------------------------------------------------------------------
(* Two readers and the writers of the live engine *)

\* a call of the second reader on its own iterator
OtherCall(op, arg, computed) ==
    /\ \E out \in {computed} :
        /\ other' = [rit |-> out.it, ret |-> Call(op, arg, out)]
        /\ Effects(out.effects)
    /\ Rejects(op \in {"seek", "seek_for_prev"}, arg)
    /\ UNCHANGED <<ps_region, snapshot, clone, it, ret, fail_fast, scan,
                   built_region, engine, cf_snap>>

\* the second reader holds a clone of the snapshot: snap.clone().iter(..)
OtherNew ==
    /\ Ready /\ ~other.rit.some
    /\ \E c \in {RegionSnapshot_clone(snapshot)} :
        other' = [rit |-> RegionSnapshot_iter(from_snapshot(c.snap, c.region),
                                              IterOption(None, None)),
                  ret |-> Call("iter", <<>>, Plain(TRUE))]
    /\ UNCHANGED <<ps_region, snapshot, clone, it, ret, fail_fast, critical_error,
                   rejected, panic_mark, panicked, log, scan, built_region,
                   engine, cf_snap>>

OtherSeek ==
    /\ Ready /\ other.rit.some
    /\ \E k \in LogicalKeys : OtherCall("seek", k, seek(other.rit, k, fail_fast))

OtherSeekToLast ==
    /\ Ready /\ other.rit.some
    /\ OtherCall("seek_to_last", <<>>, seek_to_last(other.rit))

OtherPrev ==
    /\ Ready /\ other.rit.some /\ valid(other.rit)
    /\ OtherCall("prev", <<>>, prev(other.rit))

\* the keys under which the live engine differs from the snapshot
Diverged ==
    {p \in DOMAIN engine \cup DOMAIN snapshot.snap :
        \/ p \notin DOMAIN engine
        \/ p \notin DOMAIN snapshot.snap
        \/ engine[p] # snapshot.snap[p]}

\* the value a write after the snapshot stores: none the snapshot holds
Overwritten == 0

WritableKey(k) ==
    /\ ~panicked
    /\ data_key(k) \notin Diverged
    /\ Cardinality(Diverged) < MaxWrites

\* engine.put(&data_key(k), v), committed after the snapshot was taken
Put ==
    /\ \E k \in DataKeys :
        /\ WritableKey(k)
        /\ engine' = [p \in DOMAIN engine \cup {data_key(k)} |->
                          IF p = data_key(k) THEN Overwritten ELSE engine[p]]
    /\ UNCHANGED <<ps_region, snapshot, clone, it, ret, fail_fast, critical_error,
                   rejected, panic_mark, panicked, log, scan, built_region,
                   other, cf_snap>>

\* engine.delete(&data_key(k)), committed after the snapshot was taken
Delete ==
    /\ \E k \in DataKeys :
        /\ WritableKey(k)
        /\ data_key(k) \in DOMAIN engine
        /\ engine' = [p \in DOMAIN engine \ {data_key(k)} |-> engine[p]]
    /\ UNCHANGED <<ps_region, snapshot, clone, it, ret, fail_fast, critical_error,
                   rejected, panic_mark, panicked, log, scan, built_region,
                   other, cf_snap>>

\* two readers, each on its own iterator, interleaved with each other and
\* with writes to the live engine
NextReaders ==
    \/ NewIterDefault
    \/ SeekToFirst
    \/ IterNext
    \/ OtherNew
    \/ OtherSeek
    \/ OtherSeekToLast
    \/ OtherPrev
    \/ Put
    \/ Delete

SpecReaders == InitRegion /\ [][NextReaders]_vars

-----------------------------------------------------------------------------

(* Vocabulary of the properties *)

\* s <= k < e, an empty e being unbounded
InRange(k, r) ==
    /\ KeyLeq(r.start_key, k)
    /\ (r.end_key = <<>> \/ KeyLess(k, r.end_key))

\* s <= k <= e, an empty e being unbounded
InRangeOrEnd(k, r) == InRange(k, r) \/ (r.end_key # <<>> /\ k = r.end_key)

\* the logical keys that have an entry in the snapshot
StoredKeys == {k \in LogicalKeys : (<<DATA_PREFIX>> \o k) \in DOMAIN snapshot.snap}

\* the value stored under a logical key
Stored(k) == snapshot.snap[<<DATA_PREFIX>> \o k]

\* a bound that is given: present and not empty
Given(bound) == bound.some /\ bound.val # <<>>

\* the stored keys in [max(lo, s), min(hi, e)) for user bounds lo, hi on region r
Clipped(lo, hi, r) ==
    {k \in StoredKeys :
        /\ InRange(k, r)
        /\ (Given(lo) => KeyLeq(lo.val, k))
        /\ (Given(hi) => KeyLess(k, hi.val))}

SeekOps == {"seek", "seek_for_prev"}

Accepted == ret.result.kind = "Ok"

\* the keys of a set in ascending order, each with its stored value
RECURSIVE Ascending(_)
Ascending(S) ==
    IF S = {} THEN <<>>
    ELSE <<<<MinKey(S), Stored(MinKey(S))>>>> \o Ascending(S \ {MinKey(S)})

-----------------------------------------------------------------------------
(* Properties *)

\* C1 Range containment: whenever the iterator is positioned its logical key k
\* satisfies s <= k < e for the snapshot's region [s,e) (empty e unbounded), and
\* so does every key that scan hands to the visitor.
C1_RangeContainment ==
    /\ (it.some /\ valid(it)) => InRange(key(it), built_region)
    /\ \A i \in DOMAIN scan.visited : InRange(scan.visited[i][1], built_region)

\* the iterator stands inside the region after seek_for_prev(e) while the
\* engine holds entries at e and below s
C1_Witness ==
    /\ it.some /\ valid(it)
    /\ ret.op = "seek_for_prev" /\ ret.arg = built_region.end_key
    /\ built_region.end_key \in StoredKeys
    /\ \E k \in StoredKeys : KeyLess(k, built_region.start_key)

\* C2 Snapshot isolation from region changes: however the live region changes
\* after the snapshot was built, the snapshot, its clone and their iterators
\* keep the region captured at construction: the accessors return it, get_value
\* and the seek validation check against it, and the iterator bounds are the
\* ones clipped to it.
C2_SnapshotIsolation ==
    /\ \A s \in Snapshots :
        /\ get_region(s) = built_region
        /\ get_start_key(s) = built_region.start_key
        /\ get_end_key(s) = built_region.end_key
    /\ ret.op = "get_region" => ret.result.val = built_region
    /\ ret.op = "get_value" =>
        (ret.result.kind = "KeyNotInRegion" <=> ~InRange(ret.arg, built_region))
    /\ ret.op \in SeekOps => (Accepted <=> InRangeOrEnd(ret.arg, built_region))
    /\ it.some =>
        /\ it.region = built_region
        /\ it.iter.lower = Some(<<DATA_PREFIX>> \o built_region.start_key)
        /\ it.iter.upper =
               Some(IF built_region.end_key = <<>> THEN DATA_MAX_KEY
                    ELSE <<DATA_PREFIX>> \o built_region.end_key)

\* after the live region changed, a lookup through the clone accepted a key
\* that the live region no longer holds
C2_Witness ==
    /\ clone.some
    /\ ps_region # built_region
    /\ ret.op = "get_value" /\ Accepted
    /\ ~InRange(ret.arg, ps_region)

\* C3 Bound intersection: with user bounds lo, hi on region [s,e) (a missing or
\* empty bound counting as s, e) the iterator is only ever positioned on stored
\* keys of [max(lo,s), min(hi,e)), whatever the seek targets, and it reaches
\* every such key: seek to a stored key of that range lands on it.
C3_BoundIntersection ==
    it.some =>
        /\ valid(it) =>
               key(it) \in Clipped(it.opt.lower_bound, it.opt.upper_bound, built_region)
        /\ (/\ ret.op = "seek"
            /\ ret.arg \in Clipped(it.opt.lower_bound, it.opt.upper_bound, built_region))
           => (valid(it) /\ key(it) = ret.arg)

\* a seek to a target inside the region but below the user's lower bound, with
\* an entry stored between the region start and that bound, is positioned
C3_Witness ==
    /\ it.some /\ valid(it)
    /\ Given(it.opt.lower_bound)
    /\ ret.op = "seek" /\ Accepted
    /\ KeyLess(ret.arg, it.opt.lower_bound.val)
    /\ \E k \in StoredKeys : InRange(k, built_region) /\ KeyLess(k, it.opt.lower_bound.val)

\* C4 Point lookup error contract: get_value(k) returns Ok(None) when
\* s <= k < e and nothing is stored under k, Ok(Some(v)) when v is stored under
\* k, and Err(KeyNotInRegion) when k < s or k >= e; in the error case the
\* engine is not read.
C4_PointLookup ==
    ret.op = "get_value" =>
        IF InRange(ret.arg, built_region)
        THEN /\ ret.result.kind = "Ok"
             /\ ret.result.val =
                    (IF ret.arg \in StoredKeys THEN Some(Stored(ret.arg)) ELSE NoValue)
        ELSE /\ ret.result.kind = "KeyNotInRegion"
             /\ ret.result.key = ret.arg
             /\ ret.result.region = built_region
             /\ ret.reads = 0

\* with fail-fast disabled a lookup of k = e is an error although the engine
\* holds an entry at e
C4_Witness ==
    /\ ~fail_fast
    /\ ret.op = "get_value"
    /\ ret.arg = built_region.end_key /\ ret.arg \in StoredKeys
    /\ ret.result.kind = "KeyNotInRegion"
    /\ ret.reads = 0

\* C5 as stated: seek accepts exactly s <= k < e and so rejects k = e, while
\* seek_for_prev accepts s <= k <= e.
C5_SeekAsymmetry ==
    /\ ret.op = "seek" => (Accepted <=> InRange(ret.arg, built_region))
    /\ ret.op = "seek_for_prev" => (Accepted <=> InRangeOrEnd(ret.arg, built_region))

\* C5 amended: seek and seek_for_prev validate alike: both accept exactly
\* s <= k <= e (k >= s for an empty e); seek(e) is accepted and returns
\* Ok(false), since no entry at or above e is inside the clipped bounds.
C5_SeekSymmetry ==
    /\ ret.op \in SeekOps => (Accepted <=> InRangeOrEnd(ret.arg, built_region))
    /\ (/\ ret.op = "seek"
        /\ built_region.end_key # <<>>
        /\ ret.arg = built_region.end_key)
       => (ret.result = Ok(FALSE) /\ ~valid(it))

\* seek(e) returned Ok(false) on a region with an entry stored at e
C5_Witness ==
    /\ ret.op = "seek"
    /\ built_region.end_key # <<>>
    /\ ret.arg = built_region.end_key
    /\ ret.arg \in StoredKeys
    /\ ret.result = Ok(FALSE)

\* C6 Seek positioning: an accepted seek(k) returns Ok(true) on the smallest
\* stored key >= k of the clipped range, or Ok(false) when there is none; an
\* accepted seek_for_prev(k) returns Ok(true) on the largest stored key <= k of
\* the clipped range, or Ok(false); key() and value() give that entry.
C6_SeekPositioning ==
    (it.some /\ ret.op \in SeekOps /\ Accepted) =>
        LET range == Clipped(it.opt.lower_bound, it.opt.upper_bound, built_region)
            hits  == IF ret.op = "seek"
                     THEN {k \in range : KeyLeq(ret.arg, k)}
                     ELSE {k \in range : KeyLeq(k, ret.arg)}
            hit   == IF ret.op = "seek" THEN MinKey(hits) ELSE MaxKey(hits)
        IN  IF hits = {}
            THEN ret.result.val = FALSE /\ ~valid(it)
            ELSE /\ ret.result.val = TRUE
                 /\ valid(it)
                 /\ key(it) = hit
                 /\ value(it) = Stored(hit)

\* seek_for_prev(e) stands on an entry below e while the engine holds one at e
C6_Witness ==
    /\ it.some /\ valid(it)
    /\ ret.op = "seek_for_prev"
    /\ built_region.end_key # <<>>
    /\ ret.arg = built_region.end_key
    /\ ret.arg \in StoredKeys
    /\ KeyLess(key(it), ret.arg)

\* C7 Scan result: a scan whose start_key is accepted and whose visitor always
\* continues calls the visitor once for each stored entry of
\* [max(start_key,s), min(end_key,e)) (an empty upper key being unbounded), in
\* ascending key order with the logical key and the stored value, and returns
\* Ok(()).
C7_ScanResult ==
    (/\ ret.op = "scan"
     /\ scan.pc = "done"
     /\ InRangeOrEnd(ret.arg[1], built_region)
     /\ \A i \in DOMAIN scan.verdicts : scan.verdicts[i] = "continue")
    => /\ scan.visited = Ascending(Clipped(Some(ret.arg[1]), Some(ret.arg[2]), built_region))
       /\ ret.result = Ok(TRUE)

\* a finished scan visited two entries and left out others the engine holds
C7_Witness ==
    /\ ret.op = "scan"
    /\ scan.pc = "done"
    /\ scan.verdicts = <<"continue", "continue">>
    /\ Cardinality(StoredKeys) > Len(scan.visited)
    /\ ret.result = Ok(TRUE)

\* C8 Scan short-circuit: once the visitor answered stop or an error it is not
\* called again and the iterator is not advanced again: only the last answer
\* can differ from continue, next() ran once per continue, the scan is over,
\* and it returns Ok(()) after stop and the visitor's error after an error.
C8_ScanShortCircuit ==
    /\ Len(scan.visited) = Len(scan.verdicts)
    /\ \A i \in DOMAIN scan.verdicts :
        i < Len(scan.verdicts) => scan.verdicts[i] = "continue"
    /\ scan.nexts = Cardinality({i \in DOMAIN scan.verdicts : scan.verdicts[i] = "continue"})
    /\ \A i \in DOMAIN scan.verdicts :
        /\ scan.verdicts[i] = "stop" => (scan.pc = "done" /\ ret.result = Ok(TRUE))
        /\ scan.verdicts[i] = "error" => (scan.pc = "done" /\ ret.result = VisitorError)

\* the visitor stopped on its first call although more entries were in range
C8_Witness ==
    /\ ret.op = "scan"
    /\ scan.pc = "done"
    /\ scan.verdicts = <<"stop">>
    /\ Len(scan.visited) = 1
    /\ Cardinality(Clipped(Some(ret.arg[1]), Some(ret.arg[2]), built_region)) > 1

\* C9 Fail-fast posture: with fail-fast enabled a rejected seek target
\* increments the counter, then sets the mark, then terminates the process: in
\* every terminated state the log ends with these three steps in this order,
\* the mark is set, the counter is positive and the call returned nothing; the
\* mark stays set once it is in the log.
C9_FailFast ==
    /\ (fail_fast /\ ret.op \in SeekOps /\ ~InRangeOrEnd(ret.arg, built_region))
       => panicked
    /\ panicked =>
        /\ fail_fast
        /\ log = <<"inc", "mark", "panic">>
        /\ critical_error = 1
        /\ panic_mark
        /\ ret.result = Panicked
    /\ "mark" \in Range(log) => panic_mark
    /\ fail_fast => ret.result.kind # "KeyNotInRegion" \/ ret.op = "get_value"

\* the process was terminated by a rejected seek_for_prev target
C9_Witness ==
    /\ panicked
    /\ ret.op = "seek_for_prev"
    /\ ~InRangeOrEnd(ret.arg, built_region)

\* C10 Recoverable posture: with fail-fast disabled every rejected seek target
\* returns Err(KeyNotInRegion) with the key and the region, and whatever the
\* number of rejected targets the mark is not set and the process is not
\* terminated.
C10_Recoverable ==
    ~fail_fast =>
        /\ ~panic_mark
        /\ ~panicked
        /\ (ret.op \in SeekOps /\ ~InRangeOrEnd(ret.arg, built_region))
           => ret.result = KeyNotInRegion(ret.arg, built_region)
        /\ \A i \in DOMAIN log : log[i] = "inc"
        /\ critical_error = Len(log)

\* a second rejected seek target returned its error
C10_Witness ==
    /\ ~fail_fast
    /\ critical_error = MaxErrors
    /\ ret.op = "seek"
    /\ ret.result = KeyNotInRegion(ret.arg, built_region)

\* ---------------------------------------------------------------------------
\* C11  Every KeyNotInRegion outcome goes through the corruption policy, point
\* lookups included: get_value with a key outside [s,e) increments the
\* critical-error counter and then returns Err(KeyNotInRegion) when fail-fast
\* is disabled or terminates the process, the panic mark set, when it is
\* enabled, exactly as a rejected seek does.
C11_LookupThroughPolicy ==
    (ret.op = "get_value" /\ ~InRange(ret.arg, built_region)) =>
        /\ critical_error >= 1
        /\ "inc" \in Range(log)
        /\ fail_fast => (panicked /\ panic_mark)
        /\ ~fail_fast => ret.result.kind = "KeyNotInRegion"

\* ---------------------------------------------------------------------------
\* C12  A column family the engine does not have is a recoverable error:
\* iter_cf and scan_cf on it return an error value to the caller, whatever
\* the fail-fast flag; the call never terminates the process, never
\* increments the critical-error counter and never sets the panic mark.
C12_CfNotFoundRecoverable ==
    /\ (ret.op = "iter_cf" /\ ret.arg \notin EngineCfs) =>
            (ret.result.kind = "CfNotFound" /\ ~panicked)
    /\ (ret.op = "scan_cf" /\ ret.arg[1] \notin EngineCfs) =>
            (ret.result.kind = "CfNotFound" /\ ~panicked)
    /\ (ret.op \in {"iter_cf", "scan_cf"} /\ rejected = 0) =>
            (critical_error = 0 /\ ~panic_mark)

\* the entries of a sequence in reverse order
Reverse(seq) == [i \in 1..Len(seq) |-> seq[Len(seq) + 1 - i]]

\* ---------------------------------------------------------------------------
\* C13  Forward and backward traversal are symmetric: on iterators built with
\* the same bounds over the same snapshot, the entries visited by
\* seek_to_first followed by next until it returns false are exactly the
\* reverse of those visited by seek_to_last followed by prev until it returns
\* false, and seek_to_first and seek_to_last both return false exactly when
\* the clipped range holds no entry.
C13_WalkSymmetry ==
    ret.op = "walk" =>
        LET w == ret.result.val
            range == Clipped(it.opt.lower_bound, it.opt.upper_bound, built_region)
        IN  /\ w.forward = Reverse(w.backward)
            /\ w.first = (range # {})
            /\ w.last = (range # {})
            /\ Len(w.forward) = Cardinality(range)

\* a traversal of two entries or more
C13_Witness ==
    /\ ret.op = "walk"
    /\ Len(ret.result.val.forward) >= 2
    /\ ret.result.val.forward[1] # ret.result.val.backward[1]
    /\ Given(it.opt.lower_bound)

\* the stored keys at or above a key
StoredFrom(k) == {o \in StoredKeys : KeyLeq(k, o)}

\* ---------------------------------------------------------------------------
\* C14  A region whose end_key is empty has no upper limit: iteration and
\* scan expose every data key at or above start_key, and seek, seek_for_prev
\* and get_value accept every key at or above start_key; the empty end_key
\* is never taken for an empty range or for the smallest key.
C14_UnboundedRegion ==
    built_region.end_key = <<>> =>
        /\ (ret.op \in SeekOps \cup {"get_value"}) =>
               (Accepted <=> KeyLeq(built_region.start_key, ret.arg))
        /\ (ret.op = "walk" /\ ~Given(it.opt.lower_bound)
                            /\ ~Given(it.opt.upper_bound)) =>
               /\ ret.result.val.forward = Ascending(StoredFrom(built_region.start_key))
               /\ ret.result.val.backward =
                      Reverse(Ascending(StoredFrom(built_region.start_key)))
        /\ (/\ ret.op = "scan" /\ scan.pc = "done" /\ Accepted
            /\ ret.arg[2] = <<>>
            /\ \A i \in DOMAIN scan.verdicts : scan.verdicts[i] = "continue") =>
               scan.visited = Ascending(StoredFrom(ret.arg[1]))

\* a traversal of an unbounded region that starts above the smallest key and
\* reaches the largest key of the key space
C14_Witness ==
    /\ built_region.end_key = <<>>
    /\ built_region.start_key # <<>>
    /\ ret.op = "walk"
    /\ ~Given(it.opt.lower_bound) /\ ~Given(it.opt.upper_bound)
    /\ Len(ret.result.val.forward) >= 2
    /\ ret.result.val.backward[1][1] = <<MaxByte>>

\* the two readers, each with its iterator and the return of its last call
Readers == {[rit |-> it, ret |-> ret], other}

\* the stored keys a reader's iterator ranges over
ReaderRange(r) ==
    Clipped(r.rit.opt.lower_bound, r.rit.opt.upper_bound, built_region)

\* what a reader running alone on the snapshot's data observes: the data of
\* the snapshot under its cursor, and from a positioning call the entry the
\* call selects among the snapshot's entries
ObservesAlone(r) ==
    /\ r.rit.some => r.rit.iter.data = snapshot.snap
    /\ (r.rit.some /\ valid(r.rit)) =>
           /\ key(r.rit) \in ReaderRange(r)
           /\ value(r.rit) = Stored(key(r.rit))
    /\ (r.ret.op = "seek_to_first" /\ r.rit.some) =>
           /\ r.ret.result.val = (ReaderRange(r) # {})
           /\ valid(r.rit) => key(r.rit) = MinKey(ReaderRange(r))
    /\ (r.ret.op = "seek_to_last" /\ r.rit.some) =>
           /\ r.ret.result.val = (ReaderRange(r) # {})
           /\ valid(r.rit) => key(r.rit) = MaxKey(ReaderRange(r))
    /\ (r.ret.op = "seek" /\ r.ret.result.kind = "Ok" /\ r.rit.some) =>
           LET at_or_above == {k \in ReaderRange(r) : KeyLeq(r.ret.arg, k)}
           IN  /\ r.ret.result.val = (at_or_above # {})
               /\ valid(r.rit) => key(r.rit) = MinKey(at_or_above)

\* ---------------------------------------------------------------------------
\* C15  Readers are independent: when several readers, each with its own
\* iterator built from the same snapshot or from clones of it, interleave
\* their calls, a call on one iterator never changes another iterator's
\* position or contents, and each reader observes what it would observe
\* running alone on the same point-in-time data; writes committed to the
\* engine after the snapshot was taken change nothing a reader holds or sees.
C15_ReaderIndependence ==
    /\ [](\A r \in Readers : ObservesAlone(r))
    /\ [][(it' = it /\ ret' = ret) \/ other' = other]_vars
    /\ [][engine' # engine => (it' = it /\ ret' = ret /\ other' = other
                                /\ snapshot' = snapshot)]_vars

\* both readers are positioned, on different keys, the second one on an
\* entry that a later write has removed from the live engine
C15_Witness ==
    /\ it.some /\ valid(it) /\ ret.op = "next"
    /\ other.rit.some /\ valid(other.rit) /\ other.ret.op = "prev"
    /\ key(it) # key(other.rit)
    /\ data_key(key(other.rit)) \notin DOMAIN engine

\* the stored keys a scan call ranges over: [max(start_key, s), min(end_key, e))
ScanRange == Clipped(Some(ret.arg[1]), Some(ret.arg[2]), built_region)

\* the verdicts before the last one
EarlierVerdicts == {scan.verdicts[i] : i \in 1..(Len(scan.verdicts) - 1)}

\* how a scan call that has returned ended
ScanEnded ==
    \/ /\ ret.result.kind \in {"KeyNotInRegion", "Panic"}
       /\ ~InRangeOrEnd(ret.arg[1], built_region)
       /\ scan.visited = <<>>
    \/ /\ ret.result.kind = "VisitorError"
       /\ scan.verdicts[Len(scan.verdicts)] = "error"
    \/ /\ ret.result.kind = "Ok"
       /\ scan.verdicts # <<>>
       /\ scan.verdicts[Len(scan.verdicts)] = "stop"
    \/ /\ ret.result.kind = "Ok"
       /\ \A i \in DOMAIN scan.verdicts : scan.verdicts[i] = "continue"
       /\ Len(scan.visited) = Cardinality(ScanRange)

\* ---------------------------------------------------------------------------
\* C16  A scan terminates: over the snapshot's finite data, with a visitor
\* that returns from every call, scan returns; each call of the visitor
\* receives a key strictly greater than the call before, the visitor is
\* called at most once per entry of the clipped range, and the scan ends only
\* by exhaustion, a stop, a visitor error or a rejected start key.
C16_ScanTerminates ==
    /\ [](ret.op = "scan" =>
            /\ \A i \in DOMAIN scan.visited :
                  /\ scan.visited[i][1] \in ScanRange
                  /\ i > 1 => KeyLess(scan.visited[i - 1][1], scan.visited[i][1])
            /\ Len(scan.visited) <= Cardinality(ScanRange)
            /\ EarlierVerdicts \subseteq {"continue"}
            /\ scan.pc = "done" => ScanEnded)
    /\ (scan.pc = "visit") ~> (scan.pc = "done")

\* a scan that returned after the visitor was called on three entries
C16_Witness ==
    /\ ret.op = "scan" /\ scan.pc = "done"
    /\ Len(scan.visited) = 3
    /\ ret.result.kind = "Ok"

\* the calls that carry no seek target
TargetFreeOps == {"iter", "drop", "seek_to_first", "seek_to_last", "next", "prev", "walk"}

\* ---------------------------------------------------------------------------
\* C17  The corruption policy is reached only through a rejected seek target:
\* seek_to_first, seek_to_last, next, prev, key, value, valid and accepted
\* seeks leave the critical-error counter and the panic mark unchanged and
\* never return KeyNotInRegion, so the counter always equals the number of
\* rejected seek / seek_for_prev calls made so far.
C17_PolicyOnlyOnRejectedSeek ==
    /\ critical_error = rejected
    /\ Len(log) >= rejected
    /\ panic_mark => (fail_fast /\ rejected >= 1)
    /\ ret.op \in TargetFreeOps => ret.result.kind = "Ok"
    /\ (ret.op \in SeekOps /\ InRangeOrEnd(ret.arg, built_region)) =>
           ret.result.kind = "Ok"
    /\ (ret.op = "scan" /\ InRangeOrEnd(ret.arg[1], built_region)) =>
           ret.result.kind \notin {"KeyNotInRegion", "Panic"}

\* after as many rejected seek targets as the model follows, the cursor
\* moves on through calls without a target
C17_Witness ==
    /\ rejected = MaxErrors
    /\ critical_error = MaxErrors
    /\ ret.op = "next" /\ it.some /\ valid(it)

\* ---------------------------------------------------------------------------
\* C18  A rejected seek leaves the cursor untouched: with fail-fast disabled,
\* a seek or seek_for_prev that returns Err(KeyNotInRegion) does not move the
\* iterator; valid, key and value return what they returned before the call,
\* and a following next or prev continues from the old position.
C18_RejectedSeekKeepsCursor ==
    [][(ret'.op \in SeekOps /\ rejected' = rejected + 1 /\ ~fail_fast) =>
            /\ ret'.result.kind = "KeyNotInRegion"
            /\ it' = it
            /\ valid(it') = valid(it)
            /\ valid(it) => (key(it') = key(it) /\ value(it') = value(it))
            /\ valid(it) => (next(it') = next(it) /\ prev(it') = prev(it))]_vars

\* a rejected seek_for_prev on a positioned iterator that has a next entry
C18_Witness ==
    /\ ~fail_fast
    /\ ret.op = "seek_for_prev" /\ ret.result.kind = "KeyNotInRegion"
    /\ it.some /\ valid(it)
    /\ next(it).result.val

\* ---------------------------------------------------------------------------
\* C19  scan does not clip its start key for positioning: when start_key is
\* not an accepted seek target (below s or above e), scan goes through the
\* corruption policy and, with fail-fast disabled, returns
\* Err(KeyNotInRegion) without calling the visitor, even when
\* [start_key, end_key) overlaps the region and holds data; with fail-fast
\* enabled the process terminates.
C19_ScanStartNotClipped ==
    (ret.op = "scan" /\ ~InRangeOrEnd(ret.arg[1], built_region)) =>
        /\ scan.pc = "done"
        /\ scan.visited = <<>>
        /\ ret.reads = 0
        /\ critical_error >= 1
        /\ log # <<>>
        /\ ~fail_fast =>
               /\ ret.result.kind = "KeyNotInRegion"
               /\ ret.result.key = ret.arg[1]
               /\ ret.result.region = built_region
               /\ ~panicked
        /\ fail_fast => (panicked /\ panic_mark)

\* a scan from below the region whose clipped range holds data
C19_Witness ==
    /\ ~fail_fast
    /\ ret.op = "scan"
    /\ KeyLess(ret.arg[1], built_region.start_key)
    /\ ScanRange # {}
    /\ ret.result.kind = "KeyNotInRegion"

\* get_value on the snapshot returns Ok(Some(v)) for the entry (k, v)
Found(entry) ==
    /\ get_value(snapshot, entry[1]).result.kind = "Ok"
    /\ get_value(snapshot, entry[1]).result.val = Some(entry[2])

\* the entries seek_to_first and next report on an iterator with default bounds
DefaultWalk ==
    Range(walk_forward(RegionSnapshot_iter(snapshot, IterOption(None, None))).entries)

\* ---------------------------------------------------------------------------
\* C20  Iteration and point lookup agree: for every entry (k, v) an iterator
\* or a scan reports, get_value(k) on the same snapshot returns Ok(Some(v));
\* conversely every key k in [s,e) for which get_value(k) returns Ok(Some(v))
\* is reported with v by an iterator with default bounds traversed by
\* seek_to_first and next.
C20_IterationMatchesLookup ==
    /\ (it.some /\ valid(it)) => Found(<<key(it), value(it)>>)
    /\ \A i \in DOMAIN scan.visited : Found(scan.visited[i])
    /\ ret.op = "walk" =>
           /\ \A i \in DOMAIN ret.result.val.forward : Found(ret.result.val.forward[i])
           /\ \A i \in DOMAIN ret.result.val.backward : Found(ret.result.val.backward[i])
           /\ (~Given(it.opt.lower_bound) /\ ~Given(it.opt.upper_bound)) =>
                  \A k \in LogicalKeys :
                      (/\ get_value(snapshot, k).result.kind = "Ok"
                       /\ get_value(snapshot, k).result.val.some) =>
                          <<k, get_value(snapshot, k).result.val.val>>
                              \in Range(ret.result.val.forward)
    /\ (ret.op = "get_value" /\ ret.result.kind = "Ok" /\ ret.result.val.some) =>
           <<ret.arg, ret.result.val.val>> \in DefaultWalk

\* a lookup that found the entry the iterator stands on, after a next
C20_Witness ==
    /\ ret.op = "get_value" /\ ret.result.kind = "Ok" /\ ret.result.val.some
    /\ it.some /\ valid(it) /\ key(it) = ret.arg
    /\ value(it) = ret.result.val.val
    /\ built_region.start_key # <<>> /\ built_region.end_key # <<>>

\* a physical key that carries the data prefix
InNamespace(p) == p # <<>> /\ p[1] = DATA_PREFIX

\* the entry (k, v) is region data of the snapshot: stored under data_key(k)
IsData(entry) ==
    /\ (<<DATA_PREFIX>> \o entry[1]) \in DOMAIN snapshot.snap
    /\ entry[2] = snapshot.snap[<<DATA_PREFIX>> \o entry[1]]
    /\ entry[2] # MetaValue

\* ---------------------------------------------------------------------------
\* C21  Namespace isolation: entries of the shared engine that do not carry
\* the data prefix are never returned by an iterator, a scan or a point
\* lookup, for every region, the one with empty start_key and empty end_key
\* included, because the clipped lower and upper bounds are always present
\* and are physical keys of the data namespace: the encoded start and the
\* encoded end, which is the maximal data key for an empty end_key.
C21_NamespaceIsolation ==
    /\ it.some =>
           /\ it.iter.lower.some /\ it.iter.upper.some
           /\ InNamespace(it.iter.lower.val)
           /\ KeyLeq(<<DATA_PREFIX>> \o built_region.start_key, it.iter.lower.val)
           /\ InNamespace(it.iter.upper.val) \/ it.iter.upper.val = DATA_MAX_KEY
           /\ KeyLeq(it.iter.upper.val, DATA_MAX_KEY)
           /\ (built_region.end_key = <<>> /\ ~Given(it.opt.upper_bound)) =>
                  it.iter.upper.val = DATA_MAX_KEY
    /\ (it.some /\ valid(it)) =>
           /\ InNamespace(it.iter.pos.key)
           /\ it.iter.pos.key \notin MetaKeys
           /\ IsData(<<key(it), value(it)>>)
    /\ \A i \in DOMAIN scan.visited : IsData(scan.visited[i])
    /\ ret.op = "walk" =>
           /\ \A i \in DOMAIN ret.result.val.forward : IsData(ret.result.val.forward[i])
           /\ \A i \in DOMAIN ret.result.val.backward : IsData(ret.result.val.backward[i])
    /\ (ret.op = "get_value" /\ ret.result.kind = "Ok" /\ ret.result.val.some) =>
           IsData(<<ret.arg, ret.result.val.val>>)

\* on an engine that holds metadata below and above the data namespace, the
\* region without start and end is traversed with default bounds and yields
\* its data entries
C21_Witness ==
    /\ MetaKeys \subseteq DOMAIN snapshot.snap
    /\ built_region = Region(<<>>, <<>>)
    /\ ret.op = "walk"
    /\ ~Given(it.opt.lower_bound) /\ ~Given(it.opt.upper_bound)
    /\ Len(ret.result.val.forward) = Cardinality(DataKeys)
    /\ Len(ret.result.val.backward) = Cardinality(DataKeys)

==============================================================================
